---- MODULE Spec2Model ----
(***************************************************************************)
(* Model of vagrant-mcp-server.py: the command dispatcher that translates  *)
(* a tool call (name, arguments) into one invocation of the vagrant CLI,   *)
(* runs it in the configured projects directory and formats the captured   *)
(* output as one text response.                                            *)
(***************************************************************************)
EXTENDS Integers, Sequences, FiniteSets, TLC

VARIABLES
    base_projects_dir,  \* VagrantMCPServer.base_projects_dir
    fs,                 \* what the file system holds at base_projects_dir
    calls               \* one record per request slot of the transport

vars == <<base_projects_dir, fs, calls>>

(***************************************************************************)
(* Bounds of the model.                                                    *)
(***************************************************************************)
MaxCalls == 2

CallIds == 1..MaxCalls

(***************************************************************************)
(* Python values: None, str and bool, and the "key is absent" marker used  *)
(* only while enumerating argument mappings.                               *)
(***************************************************************************)
PyNone == [t |-> "none"]

PyStr(s) == [t |-> "str", s |-> s]

PyBool(b) == [t |-> "bool", b |-> b]

Absent == [t |-> "absent"]

\* Python truthiness of a value: None, "" and False are falsy.
Truthy(v) ==
    \/ v.t = "str" /\ v.s # ""
    \/ v.t = "bool" /\ v.b

\* A dict built from a record of candidate values, dropping the absent keys.
ArgMap(assign) ==
    [k \in {x \in DOMAIN assign : assign[x] # Absent} |-> assign[k]]

\* dict.get(key, default)
Get(args, key, default) == IF key \in DOMAIN args THEN args[key] ELSE default

\* dict.get(key): None when the key is absent
GetOpt(args, key) == Get(args, key, PyNone)

\* `arguments or {}` of handle_call_tool: None and the empty dict give {}
OrEmpty(arguments) ==
    IF arguments.isNone THEN ArgMap([k |-> Absent]) ELSE arguments.map

(***************************************************************************)
(* The requests of the model: every tool name of handle_call_tool plus one *)
(* unknown name, with argument mappings in which each parameter the tool   *)
(* reads is absent, empty or present (booleans: absent, true, false).      *)
(***************************************************************************)
OptName == {Absent, PyStr(""), PyStr("web")}

OptProvider == {Absent, PyStr(""), PyStr("virtualbox")}

OptCommand == {Absent, PyStr(""), PyStr("uname -a")}

OptProvisionWith == {Absent, PyStr(""), PyStr("shell")}

OptSnapshotName == {Absent, PyStr(""), PyStr("snap1")}

\* the four actions of the schema's enum, and "push", which is outside it
OptAction ==
    {Absent, PyStr(""), PyStr("save"), PyStr("restore"), PyStr("list"),
     PyStr("delete"), PyStr("push")}

OptBool == {Absent, PyBool(TRUE), PyBool(FALSE)}

OptDirectory == {Absent, PyStr("/tmp/other")}

Arguments(map) == [isNone |-> FALSE, map |-> map]

NoArguments == [isNone |-> TRUE, map |-> ArgMap([k |-> Absent])]

Req(name, arguments) == [name |-> name, arguments |-> arguments]

StatusRequests ==
    {Req("vagrant_status", NoArguments)} \cup
    {Req("vagrant_status",
         Arguments(ArgMap([directory |-> d, machine_name |-> m, force |-> f]))) :
        d \in OptDirectory, m \in {Absent, PyStr("web")},
        f \in {Absent, PyBool(TRUE)}}

UpRequests ==
    {Req("vagrant_up",
         Arguments(ArgMap([machine_name |-> m, provider |-> p,
                           provision |-> v, directory |-> d]))) :
        m \in OptName, p \in OptProvider, v \in OptBool, d \in OptDirectory}

HaltRequests ==
    {Req("vagrant_halt",
         Arguments(ArgMap([machine_name |-> m, force |-> f, directory |-> d]))) :
        m \in OptName, f \in OptBool, d \in OptDirectory}

DestroyRequests ==
    {Req("vagrant_destroy",
         Arguments(ArgMap([machine_name |-> m, force |-> f, directory |-> d]))) :
        m \in OptName, f \in OptBool, d \in OptDirectory}

SshRequests ==
    {Req("vagrant_ssh", NoArguments)} \cup
    {Req("vagrant_ssh",
         Arguments(ArgMap([command |-> c, machine_name |-> m, directory |-> d]))) :
        c \in OptCommand, m \in OptName, d \in OptDirectory}

ProvisionRequests ==
    {Req("vagrant_provision",
         Arguments(ArgMap([machine_name |-> m, provision_with |-> w,
                           directory |-> d]))) :
        m \in OptName, w \in OptProvisionWith, d \in OptDirectory}

ReloadRequests ==
    {Req("vagrant_reload",
         Arguments(ArgMap([machine_name |-> m, provision |-> v, directory |-> d]))) :
        m \in OptName, v \in OptBool, d \in OptDirectory}

SnapshotRequests ==
    {Req("vagrant_snapshot", NoArguments)} \cup
    {Req("vagrant_snapshot",
         Arguments(ArgMap([action |-> a, snapshot_name |-> n,
                           machine_name |-> m, directory |-> d]))) :
        a \in OptAction, n \in OptSnapshotName, m \in OptName,
        d \in OptDirectory}

GlobalStatusRequests ==
    {Req("vagrant_global_status", NoArguments)} \cup
    {Req("vagrant_global_status",
         Arguments(ArgMap([prune |-> p, directory |-> d, machine_name |-> m]))) :
        p \in OptBool, d \in OptDirectory, m \in {Absent, PyStr("web")}}

UnknownRequests ==
    {Req("vagrant_package", NoArguments),
     Req("vagrant_package", Arguments(ArgMap([machine_name |-> PyStr("web")])))}

Requests ==
    StatusRequests \cup UpRequests \cup HaltRequests \cup DestroyRequests \cup
    SshRequests \cup ProvisionRequests \cup ReloadRequests \cup
    SnapshotRequests \cup GlobalStatusRequests \cup UnknownRequests

(***************************************************************************)
(* The tool handlers up to their call of _run_vagrant_command: validation  *)
(* of the required parameters and construction of the argument list.  A    *)
(* handler either raises ValueError or hands over (cmd_args, directory,    *)
(* input_text) together with the title of its report.                      *)
(***************************************************************************)
Raise(msg) == [raised |-> TRUE, exc |-> msg]

Run(cmd_args, directory, input_text, title, with_wd) ==
    [raised |-> FALSE, cmd_args |-> cmd_args, directory |-> directory,
     input_text |-> input_text, title |-> title, with_wd |-> with_wd]

\* `if cond: cmd_args.append/extend(toks)`
Opt(cond, toks) == IF cond THEN toks ELSE <<>>

\* `if args.get(key): cmd_args.append(args[key])`
OptValue(args, key) == Opt(Truthy(GetOpt(args, key)), <<GetOpt(args, key).s>>)

\* str.title() on the action names of the model
TitleCase(s) ==
    CASE s = "save" -> "Save"
      [] s = "restore" -> "Restore"
      [] s = "list" -> "List"
      [] s = "delete" -> "Delete"
      [] s = "push" -> "Push"
      [] OTHER -> s

VagrantStatus(args) ==
    Run(<<"status">>, GetOpt(args, "directory"), PyNone, "Vagrant Status:\n", TRUE)

\* VagrantUp with `if not args.get("provision")`: an absent provision counts
\* as disabled
VagrantUpNoDefault(args) ==
    Run(<<"up">>
          \o OptValue(args, "machine_name")
          \o Opt(Truthy(GetOpt(args, "provider")),
                 <<"--provider", GetOpt(args, "provider").s>>)
          \o Opt(~Truthy(GetOpt(args, "provision")), <<"--no-provision">>),
        GetOpt(args, "directory"), PyNone, "Vagrant Up:\n", FALSE)

VagrantUp(args) ==
    Run(<<"up">>
          \o OptValue(args, "machine_name")
          \o Opt(Truthy(GetOpt(args, "provider")),
                 <<"--provider", GetOpt(args, "provider").s>>)
          \o Opt(Get(args, "provision", PyBool(TRUE)) = PyBool(FALSE),
                 <<"--no-provision">>),
        GetOpt(args, "directory"), PyNone, "Vagrant Up:\n", FALSE)

VagrantHalt(args) ==
    Run(<<"halt">>
          \o OptValue(args, "machine_name")
          \o Opt(Truthy(Get(args, "force", PyBool(FALSE))), <<"--force">>),
        GetOpt(args, "directory"), PyNone, "Vagrant Halt:\n", FALSE)

VagrantDestroy(args) ==
    Run(<<"destroy">>
          \o OptValue(args, "machine_name")
          \o Opt(Truthy(Get(args, "force", PyBool(FALSE))), <<"--force">>),
        GetOpt(args, "directory"),
        IF ~Truthy(Get(args, "force", PyBool(FALSE))) THEN PyStr("y\n") ELSE PyNone,
        "Vagrant Destroy:\n", FALSE)

VagrantSsh(args) ==
    IF ~Truthy(GetOpt(args, "command"))
    THEN Raise("command parameter is required")
    ELSE Run(<<"ssh">>
               \o OptValue(args, "machine_name")
               \o <<"-c", args["command"].s>>,
             GetOpt(args, "directory"), PyNone, "Vagrant SSH Command:\n", FALSE)

VagrantProvision(args) ==
    Run(<<"provision">>
          \o OptValue(args, "machine_name")
          \o Opt(Truthy(GetOpt(args, "provision_with")),
                 <<"--provision-with", GetOpt(args, "provision_with").s>>),
        GetOpt(args, "directory"), PyNone, "Vagrant Provision:\n", FALSE)

VagrantReload(args) ==
    Run(<<"reload">>
          \o OptValue(args, "machine_name")
          \o Opt(Truthy(Get(args, "provision", PyBool(FALSE))), <<"--provision">>),
        GetOpt(args, "directory"), PyNone, "Vagrant Reload:\n", FALSE)

\* VagrantSnapshot that asks for snapshot_name only for save and restore
VagrantSnapshotDeleteUnchecked(args) ==
    LET action == GetOpt(args, "action") IN
    IF ~Truthy(action)
    THEN Raise("action parameter is required")
    ELSE IF action.s \in {"save", "restore"}
            /\ ~Truthy(GetOpt(args, "snapshot_name"))
    THEN Raise("snapshot_name is required for " \o action.s \o " action")
    ELSE Run(<<"snapshot", action.s>>
               \o OptValue(args, "snapshot_name")
               \o OptValue(args, "machine_name"),
             GetOpt(args, "directory"), PyNone,
             "Vagrant Snapshot " \o TitleCase(action.s) \o ":\n", FALSE)

VagrantSnapshot(args) ==
    LET action == GetOpt(args, "action") IN
    IF ~Truthy(action)
    THEN Raise("action parameter is required")
    ELSE IF action.s \in {"save", "restore", "delete"}
            /\ ~Truthy(GetOpt(args, "snapshot_name"))
    THEN Raise("snapshot_name is required for " \o action.s \o " action")
    ELSE Run(<<"snapshot", action.s>>
               \o OptValue(args, "snapshot_name")
               \o OptValue(args, "machine_name"),
             GetOpt(args, "directory"), PyNone,
             "Vagrant Snapshot " \o TitleCase(action.s) \o ":\n", FALSE)

VagrantGlobalStatus(args) ==
    Run(<<"global-status">>
          \o Opt(Truthy(Get(args, "prune", PyBool(FALSE))), <<"--prune">>),
        PyNone, PyNone, "Vagrant Global Status:\n", FALSE)

\* The if/elif chain of handle_call_tool.
Handler(name, arguments) ==
    LET args == OrEmpty(arguments) IN
    CASE name = "vagrant_status" -> VagrantStatus(args)
      [] name = "vagrant_up" -> VagrantUp(args)
      [] name = "vagrant_halt" -> VagrantHalt(args)
      [] name = "vagrant_destroy" -> VagrantDestroy(args)
      [] name = "vagrant_ssh" -> VagrantSsh(args)
      [] name = "vagrant_provision" -> VagrantProvision(args)
      [] name = "vagrant_reload" -> VagrantReload(args)
      [] name = "vagrant_snapshot" -> VagrantSnapshot(args)
      [] name = "vagrant_global_status" -> VagrantGlobalStatus(args)
      [] OTHER -> Raise("Unknown tool: " \o name)

(***************************************************************************)
(* Text helpers: " ".join(cmd), the f-string rendering of an integer, and  *)
(* the codecs used on the child's streams.                                 *)
(***************************************************************************)
RECURSIVE Join(_)
Join(toks) ==
    IF Len(toks) = 0 THEN ""
    ELSE IF Len(toks) = 1 THEN toks[1]
    ELSE toks[1] \o " " \o Join(Tail(toks))

Digit(d) ==
    CASE d = 0 -> "0" [] d = 1 -> "1" [] d = 2 -> "2" [] d = 3 -> "3"
      [] d = 4 -> "4" [] d = 5 -> "5" [] d = 6 -> "6" [] d = 7 -> "7"
      [] d = 8 -> "8" [] d = 9 -> "9"

RECURSIVE NatToStr(_)
NatToStr(n) ==
    IF n < 10 THEN Digit(n) ELSE NatToStr(n \div 10) \o Digit(n % 10)

IntToStr(n) == IF n < 0 THEN "-" \o NatToStr(0 - n) ELSE NatToStr(n)

\* str.encode() of the input texts the handlers can build
Utf8Encode(s) ==
    CASE s = "y\n" -> <<121, 10>>
      [] s = "" -> <<>>

\* the characters of the model's byte alphabet
Chr(b) ==
    CASE b = 10 -> "\n"
      [] b = 107 -> "k"
      [] b = 111 -> "o"
      [] b = 120 -> "x"
      [] OTHER -> "?"

\* the two-byte sequences of the model's byte alphabet (U+00E9 only)
Chr2(b1, b2) == IF b1 = 195 /\ b2 = 169 THEN "<U+00E9>" ELSE "<U+....>"

ReplacementChar == "<U+FFFD>"

\* bytes.decode('utf-8', errors='replace') on one- and two-byte sequences:
\* a byte that starts no valid sequence becomes U+FFFD and decoding goes on.
RECURSIVE Utf8Decode(_)
Utf8Decode(bytes) ==
    IF Len(bytes) = 0 THEN ""
    ELSE IF bytes[1] < 128 THEN Chr(bytes[1]) \o Utf8Decode(Tail(bytes))
    ELSE IF /\ bytes[1] >= 194 /\ bytes[1] <= 223 /\ Len(bytes) >= 2
            /\ bytes[2] >= 128 /\ bytes[2] <= 191
    THEN Chr2(bytes[1], bytes[2]) \o Utf8Decode(Tail(Tail(bytes)))
    ELSE ReplacementChar \o Utf8Decode(Tail(bytes))

(***************************************************************************)
(* The environment: the file system at the configured directory, the       *)
(* vagrant executable, and what a child process can do.                    *)
(***************************************************************************)
\* "absent": no entry; "file": an entry that is not a directory;
\* "dir": a directory without Vagrantfile; "project": one with it.
FsStates == {"absent", "file", "dir", "project"}

ToolStates == {"ok", "missing", "noperm"}

\* Exit statuses as asyncio reports them: -N is death by signal N.
ExitCodes == {0, 1, 127, -1}

StdoutBytes == {<<>>, <<111, 107, 10>>, <<195, 169, 255>>}

StderrBytes == {<<>>, <<120, 10>>, <<255, 111>>}

\* VAGRANT_PROJECTS_DIR: unset, or set to a directory
EnvValues == {PyNone, PyStr("/srv/lab")}

\* os.environ.get("VAGRANT_PROJECTS_DIR", "/vagrant-projects")
EnvGet(env) == IF env = PyNone THEN "/vagrant-projects" ELSE env.s

\* os.path.join(a, b) for a directory name without trailing separator
PathJoin(a, b) == a \o "/" \o b

\* os.path.exists(path): the model's file system holds entries only at and
\* under the configured directory.
PathExists(path) ==
    \/ path = base_projects_dir /\ fs # "absent"
    \/ path = PathJoin(base_projects_dir, "Vagrantfile") /\ fs = "project"

\* The OSError that asyncio.create_subprocess_exec raises, or "" when the
\* child starts: chdir(cwd) is tried first, then the exec of the tool.
SpawnError(cwd, tool) ==
    IF ~PathExists(cwd)
    THEN "[Errno 2] No such file or directory: '" \o cwd \o "'"
    ELSE IF fs = "file"
    THEN "[Errno 20] Not a directory: '" \o cwd \o "'"
    ELSE IF tool = "missing"
    THEN "[Errno 2] No such file or directory: 'vagrant'"
    ELSE IF tool = "noperm"
    THEN "[Errno 13] Permission denied: 'vagrant'"
    ELSE ""

(***************************************************************************)
(* _run_vagrant_command and the report of a handler.                       *)
(***************************************************************************)
\* _get_working_directory that honours a requested directory
GetWorkingDirectoryRequested(requested_dir) ==
    IF Truthy(requested_dir) THEN requested_dir.s ELSE base_projects_dir

\* _get_working_directory: the requested directory is ignored
GetWorkingDirectory(requested_dir) == base_projects_dir

\* cmd = ["vagrant"] + args
Cmd(cmd_args) == <<"vagrant">> \o cmd_args

\* the dict returned when the directory is missing
NoDirectoryResult(cmd, cwd) ==
    [command |-> Join(cmd), return_code |-> -1, stdout |-> "",
     stderr |-> "Directory does not exist: " \o cwd, success |-> FALSE]

\* the dict returned when the Vagrantfile is missing
NoVagrantfileResult(cmd, cwd) ==
    [command |-> Join(cmd), return_code |-> -1, stdout |-> "",
     stderr |-> "No Vagrantfile found in: " \o cwd, success |-> FALSE]

\* the Vagrantfile check applied to every command
NeedsVagrantfileAlways(cmd_args) == TRUE

\* the Vagrantfile check applies unless args[0] is "global-status"
NeedsVagrantfile(cmd_args) == cmd_args[1] \notin {"global-status"}

\* stdin=asyncio.subprocess.PIPE for every child
StdinAlwaysPipe(input_text) == "pipe"

\* stdin=asyncio.subprocess.PIPE if input_text else None
StdinOf(input_text) == IF Truthy(input_text) THEN "pipe" ELSE "inherit"

\* input=input_text.encode() if input_text else None
InputOf(input_text) ==
    IF Truthy(input_text) THEN Utf8Encode(input_text.s) ELSE <<>>

\* the dict returned after process.communicate()
ProcessResult(cmd, cwd, returncode, stdout, stderr) ==
    [command |-> Join(cmd), return_code |-> returncode,
     stdout |-> Utf8Decode(stdout), stderr |-> Utf8Decode(stderr),
     success |-> (returncode = 0), working_directory |-> cwd]

\* the exception dict with the generic failure code 1
ExceptionResultCodeOne(cmd, cwd, e) ==
    [command |-> Join(cmd), return_code |-> 1, stdout |-> "",
     stderr |-> e, success |-> FALSE, working_directory |-> cwd]

\* the dict returned by the `except Exception as e` clause
ExceptionResult(cmd, cwd, e) ==
    [command |-> Join(cmd), return_code |-> -1, stdout |-> "",
     stderr |-> e, success |-> FALSE, working_directory |-> cwd]

\* the text block with the standard output as its body in every case
FormatResultStdoutOnly(title, with_wd, result) ==
    title
    \o "Command: " \o result.command \o "\n"
    \o (IF with_wd
        THEN "Working Directory: "
             \o (IF "working_directory" \in DOMAIN result
                 THEN result.working_directory ELSE "unknown") \o "\n"
        ELSE "")
    \o "Return Code: " \o IntToStr(result.return_code) \o "\n\n"
    \o "Output:\n" \o result.stdout

\* the text block every handler builds from the result
FormatResult(title, with_wd, result) ==
    title
    \o "Command: " \o result.command \o "\n"
    \o (IF with_wd
        THEN "Working Directory: "
             \o (IF "working_directory" \in DOMAIN result
                 THEN result.working_directory ELSE "unknown") \o "\n"
        ELSE "")
    \o "Return Code: " \o IntToStr(result.return_code) \o "\n\n"
    \o (IF result.success
        THEN "Output:\n" \o result.stdout
        ELSE "Error:\n" \o result.stderr)

\* handle_call_tool without its except clause: the exception reaches the
\* transport
Uncaught(e) == [kind |-> "fault", text |-> e]

\* handle_call_tool's `except Exception as e`: the exception becomes a text
Caught(e) == [kind |-> "text", text |-> "Error: " \o e]

\* a handler's normal return
Returned(text) == [kind |-> "text", text |-> text]

(***************************************************************************)
(* State of one call.                                                      *)
(***************************************************************************)
NoChild ==
    [state |-> "none", argv |-> <<>>, cwd |-> "", stdin |-> "inherit",
     stdin_data |-> <<>>, returncode |-> 0, stdout |-> <<>>, stderr |-> <<>>]

NoResult == [absent |-> TRUE]

IdleCall ==
    [pc |-> "idle", req |-> Req("", NoArguments), prep |-> Raise(""),
     cmd |-> <<>>, cwd |-> "", child |-> NoChild, result |-> NoResult,
     outcome |-> "none", response |-> PyNone,
     spawns |-> 0, responses |-> 0, faults |-> 0]

\* the call ends: its outcome goes to the transport
Finish(call, outcome, result, out) ==
    [call EXCEPT !.pc = "done", !.outcome = outcome, !.result = result,
                 !.response = IF out.kind = "text" THEN PyStr(out.text) ELSE PyNone,
                 !.responses = @ + (IF out.kind = "text" THEN 1 ELSE 0),
                 !.faults = @ + (IF out.kind = "text" THEN 0 ELSE 1)]

\* a handler's return after _run_vagrant_command gave `result`
FinishWith(call, outcome, result) ==
    Finish(call, outcome, result,
           Returned(FormatResult(call.prep.title, call.prep.with_wd, result)))

\* a spawn failure answered by one more attempt
AfterSpawnFailureRetry(call, e) ==
    IF call.spawns < 2
    THEN call
    ELSE FinishWith(call, "spawn_error", ExceptionResult(call.cmd, call.cwd, e))

\* the `except Exception as e` clause of _run_vagrant_command: the call
\* returns the exception's dict, and the handler reports it
AfterSpawnFailure(call, e) ==
    FinishWith(call, "spawn_error", ExceptionResult(call.cmd, call.cwd, e))

Init ==
    /\ base_projects_dir \in {EnvGet(env) : env \in EnvValues}
    /\ fs \in FsStates
    /\ calls = [c \in CallIds |-> IdleCall]

\* no call is in flight
Quiescent == \A d \in CallIds : calls[d].pc = "idle"

\* handle_call_tool up to the first look at the file system: the handler's
\* validation and argument list, then the directory check.
CallTool(c, req) ==
    /\ calls[c].pc = "idle"
    /\ LET prep == Handler(req.name, req.arguments)
           call == [calls[c] EXCEPT !.req = req, !.prep = prep]
       IN IF prep.raised
          THEN calls' = [calls EXCEPT ![c] =
                   Finish(call, "caller_error", NoResult, Caught(prep.exc))]
          ELSE LET cmd == Cmd(prep.cmd_args)
                   cwd == GetWorkingDirectory(prep.directory)
                   run == [call EXCEPT !.cmd = cmd, !.cwd = cwd]
               IN IF ~PathExists(cwd)
                  THEN calls' = [calls EXCEPT ![c] =
                           FinishWith(run, "no_directory", NoDirectoryResult(cmd, cwd))]
                  ELSE calls' = [calls EXCEPT ![c] = [run EXCEPT !.pc = "check_marker"]]
    /\ UNCHANGED <<base_projects_dir, fs>>

\* a call delivered by a transport that hands over one call at a time
SerialCallTool(c, req) == Quiescent /\ CallTool(c, req)

\* the Vagrantfile check
CheckMarker(c) ==
    /\ calls[c].pc = "check_marker"
    /\ LET call == calls[c] IN
       IF NeedsVagrantfile(call.prep.cmd_args)
          /\ ~PathExists(PathJoin(call.cwd, "Vagrantfile"))
       THEN calls' = [calls EXCEPT ![c] =
                FinishWith(call, "no_vagrantfile",
                           NoVagrantfileResult(call.cmd, call.cwd))]
       ELSE calls' = [calls EXCEPT ![c].pc = "spawn"]
    /\ UNCHANGED <<base_projects_dir, fs>>

\* asyncio.create_subprocess_exec: the child starts, or the call raises
Spawn(c) ==
    /\ calls[c].pc = "spawn"
    /\ \E tool \in ToolStates :
        LET call == [calls[c] EXCEPT !.spawns = @ + 1]
            e == SpawnError(call.cwd, tool)
        IN IF e = ""
           THEN calls' = [calls EXCEPT ![c] =
                    [call EXCEPT !.pc = "communicate",
                                 !.child = [NoChild EXCEPT
                                     !.state = "running",
                                     !.argv = call.cmd,
                                     !.cwd = call.cwd,
                                     !.stdin = StdinOf(call.prep.input_text),
                                     !.stdin_data = InputOf(call.prep.input_text)]]]
           ELSE calls' = [calls EXCEPT ![c] = AfterSpawnFailure(call, e)]
    /\ UNCHANGED <<base_projects_dir, fs>>

\* the child process of call c exits with status rc, having written out
\* and err
ChildExitWith(c, rc, out, err) ==
    /\ calls[c].pc = "communicate"
    /\ calls[c].child.state = "running"
    /\ calls' = [calls EXCEPT ![c].child =
                    [@ EXCEPT !.state = "exited", !.returncode = rc,
                              !.stdout = out, !.stderr = err]]
    /\ UNCHANGED <<base_projects_dir, fs>>

\* the child process exits, having written its output
ChildExit(c) ==
    \E rc \in ExitCodes, out \in StdoutBytes, err \in StderrBytes :
        ChildExitWith(c, rc, out, err)

\* `process` kept in one place for all calls: the child of the first call
\* that has one
ProcessShared(c) ==
    LET owners == {d \in CallIds : calls[d].child.state # "none"} IN
    IF owners = {} THEN calls[c].child
    ELSE calls[CHOOSE d \in owners : \A e \in owners : d <= e].child

\* `process`, a local variable of the call's own _run_vagrant_command
ProcessOf(c) == calls[c].child

\* a wait that also ends when the child is still running (a timeout)
ExitedOrTimedOut(process) == TRUE

\* `await process.communicate()` returns when the child has exited and its
\* streams are closed
Exited(process) == process.state = "exited"

\* process.communicate() returns once the child has exited
Communicate(c) ==
    /\ calls[c].pc = "communicate"
    /\ Exited(ProcessOf(c))
    /\ LET call == calls[c]
           process == ProcessOf(c)
       IN calls' = [calls EXCEPT ![c] =
              FinishWith(call, "exited",
                         ProcessResult(call.cmd, call.cwd, process.returncode,
                                       process.stdout, process.stderr))]
    /\ UNCHANGED <<base_projects_dir, fs>>

\* the transport has the response; the call's state is discarded
Return(c) ==
    /\ calls[c].pc = "done"
    /\ calls' = [calls EXCEPT ![c] = IdleCall]
    /\ UNCHANGED <<base_projects_dir, fs>>

\* the directory or its Vagrantfile appears or disappears
FsChange ==
    /\ \E f \in FsStates \ {fs} : fs' = f
    /\ UNCHANGED <<base_projects_dir, calls>>

Next ==
    \/ \E c \in CallIds, req \in Requests : SerialCallTool(c, req)
    \/ \E c \in CallIds : CheckMarker(c)
    \/ \E c \in CallIds : Spawn(c)
    \/ \E c \in CallIds : ChildExit(c)
    \/ \E c \in CallIds : Communicate(c)
    \/ \E c \in CallIds : Return(c)
    \/ FsChange

Spec == Init /\ [][Next]_vars

(***************************************************************************)
(* Interleaved calls: the transport starts a call while others are in      *)
(* flight.  The requests and the children's outcomes are a representative  *)
(* few, so that several calls can be followed at once.                     *)
(***************************************************************************)
ConcRequests ==
    {Req("vagrant_destroy", Arguments(ArgMap([machine_name |-> PyStr("web")]))),
     Req("vagrant_ssh",
         Arguments(ArgMap([command |-> PyStr("uname -a"),
                           directory |-> PyStr("/tmp/other")]))),
     Req("vagrant_global_status", Arguments(ArgMap([prune |-> PyBool(TRUE)]))),
     Req("vagrant_snapshot", Arguments(ArgMap([action |-> PyStr("restore")])))}

\* a child that succeeds writing to stdout, and one that fails writing to
\* stderr
ConcOutcomes ==
    {[rc |-> 0, out |-> <<111, 107, 10>>, err |-> <<>>],
     [rc |-> 1, out |-> <<>>, err |-> <<120, 10>>]}

ConcNext ==
    \/ \E c \in CallIds, req \in ConcRequests : CallTool(c, req)
    \/ \E c \in CallIds : CheckMarker(c)
    \/ \E c \in CallIds : Spawn(c)
    \/ \E c \in CallIds, o \in ConcOutcomes : ChildExitWith(c, o.rc, o.out, o.err)
    \/ \E c \in CallIds : Communicate(c)
    \/ \E c \in CallIds : Return(c)
    \/ FsChange

ConcSpec == Init /\ [][ConcNext]_vars

\* The event loop runs every coroutine that is ready: a call that can make
\* its next check, start its child or collect an exited child does so.
\* Nothing makes a child exit, and nothing makes the transport send calls.
CallFairness ==
    \A c \in CallIds :
        /\ WF_vars(CheckMarker(c))
        /\ WF_vars(Spawn(c))
        /\ WF_vars(Communicate(c))

\* one request that reaches its child and one that is rejected at once
WaitRequests ==
    {Req("vagrant_destroy", Arguments(ArgMap([machine_name |-> PyStr("web")]))),
     Req("vagrant_snapshot", Arguments(ArgMap([action |-> PyStr("restore")])))}

WaitNext ==
    \/ \E c \in CallIds, req \in WaitRequests : CallTool(c, req)
    \/ \E c \in CallIds : CheckMarker(c)
    \/ \E c \in CallIds : Spawn(c)
    \/ \E c \in CallIds, o \in ConcOutcomes : ChildExitWith(c, o.rc, o.out, o.err)
    \/ \E c \in CallIds : Communicate(c)
    \/ \E c \in CallIds : Return(c)
    \/ FsChange

FairConcSpec == Init /\ [][WaitNext]_vars /\ CallFairness

(***************************************************************************)
(* Properties.  The expected behaviour is written from the specification's *)
(* tables, independently of the handlers above.                            *)
(***************************************************************************)
\* the parameter mapping of a request (empty when no arguments were sent)
ParamsOf(req) ==
    IF req.arguments.isNone THEN ArgMap([k |-> Absent]) ELSE req.arguments.map

\* the parameter is present with a non-empty text
HasText(a, k) == k \in DOMAIN a /\ a[k].t = "str" /\ a[k].s # ""

\* the boolean parameter is present and true / present and false
IsTrue(a, k) == k \in DOMAIN a /\ a[k] = PyBool(TRUE)

IsFalse(a, k) == k \in DOMAIN a /\ a[k] = PyBool(FALSE)

\* [k]: the parameter's text when given, nothing otherwise
Tok(a, k) == IF HasText(a, k) THEN <<a[k].s>> ELSE <<>>

\* the argument table of section 4.1
TableArgs(req) ==
    LET a == ParamsOf(req) IN
    CASE req.name = "vagrant_status" -> <<"status">>
      [] req.name = "vagrant_up" ->
            <<"up">> \o Tok(a, "machine_name")
            \o (IF HasText(a, "provider") THEN <<"--provider", a["provider"].s>> ELSE <<>>)
            \o (IF IsFalse(a, "provision") THEN <<"--no-provision">> ELSE <<>>)
      [] req.name = "vagrant_halt" ->
            <<"halt">> \o Tok(a, "machine_name")
            \o (IF IsTrue(a, "force") THEN <<"--force">> ELSE <<>>)
      [] req.name = "vagrant_destroy" ->
            <<"destroy">> \o Tok(a, "machine_name")
            \o (IF IsTrue(a, "force") THEN <<"--force">> ELSE <<>>)
      [] req.name = "vagrant_ssh" ->
            <<"ssh">> \o Tok(a, "machine_name") \o <<"-c">> \o Tok(a, "command")
      [] req.name = "vagrant_provision" ->
            <<"provision">> \o Tok(a, "machine_name")
            \o (IF HasText(a, "provision_with")
                THEN <<"--provision-with", a["provision_with"].s>> ELSE <<>>)
      [] req.name = "vagrant_reload" ->
            <<"reload">> \o Tok(a, "machine_name")
            \o (IF IsTrue(a, "provision") THEN <<"--provision">> ELSE <<>>)
      [] req.name = "vagrant_snapshot" ->
            <<"snapshot">> \o Tok(a, "action") \o Tok(a, "snapshot_name")
            \o Tok(a, "machine_name")
      [] req.name = "vagrant_global_status" ->
            <<"global-status">> \o (IF IsTrue(a, "prune") THEN <<"--prune">> ELSE <<>>)
      [] OTHER -> <<>>

\* the call has a child process (running or exited)
HasChild(c) == calls[c].child.state # "none"

\* C1: for every operation and parameter mapping, the argument list built
\* for the call, and the one the child process is started with, is the base
\* token followed by exactly the optional tokens of the table, in its order.
C1_ArgumentTable ==
    \A c \in CallIds :
        /\ calls[c].cmd # <<>> => Tail(calls[c].cmd) = TableArgs(calls[c].req)
        /\ HasChild(c) =>
              /\ calls[c].child.argv[1] = "vagrant"
              /\ Tail(calls[c].child.argv) = TableArgs(calls[c].req)

\* the example of the specification: start with machine, provider and
\* provisioning disabled has reached its child process
C1_Witness ==
    \E c \in CallIds :
        /\ HasChild(c)
        /\ calls[c].req.name = "vagrant_up"
        /\ Tail(calls[c].child.argv) =
              <<"up", "web", "--provider", "virtualbox", "--no-provision">>

\* a required parameter of the request is missing or empty
MissingRequired(req) ==
    LET a == ParamsOf(req) IN
    \/ req.name = "vagrant_ssh" /\ ~HasText(a, "command")
    \/ req.name = "vagrant_snapshot" /\ ~HasText(a, "action")
    \/ /\ req.name = "vagrant_snapshot"
       /\ HasText(a, "action")
       /\ a["action"].s \in {"save", "restore", "delete"}
       /\ ~HasText(a, "snapshot_name")

CallerErrorTexts ==
    {"Error: command parameter is required",
     "Error: action parameter is required",
     "Error: snapshot_name is required for save action",
     "Error: snapshot_name is required for restore action",
     "Error: snapshot_name is required for delete action"}

\* C2: a call that lacks a required parameter ends with a caller-error text,
\* with no pre-flight result and no child process, whatever the file system
\* holds; snapshot list without a snapshot name is not rejected.
C2_MissingRequiredRejected ==
    \A c \in CallIds :
        /\ (calls[c].pc # "idle" /\ MissingRequired(calls[c].req)) =>
              /\ calls[c].pc = "done"
              /\ calls[c].outcome = "caller_error"
              /\ calls[c].response.t = "str"
              /\ calls[c].response.s \in CallerErrorTexts
              /\ calls[c].result = NoResult
              /\ calls[c].spawns = 0
              /\ calls[c].child = NoChild
        /\ (/\ calls[c].pc # "idle"
            /\ calls[c].req.name = "vagrant_snapshot"
            /\ HasText(ParamsOf(calls[c].req), "action")
            /\ ParamsOf(calls[c].req)["action"].s = "list") =>
              calls[c].outcome # "caller_error"

\* snapshot restore without a name was rejected while the directory is
\* missing
C2_Witness ==
    \E c \in CallIds :
        /\ calls[c].pc = "done"
        /\ calls[c].req =
              Req("vagrant_snapshot", Arguments(ArgMap([action |-> PyStr("restore")])))
        /\ calls[c].outcome = "caller_error"
        /\ fs = "absent"

\* C3: a child process started for snapshot-manage has an action token out
\* of save, restore, list, delete.
C3_ActionInEnum ==
    \A c \in CallIds :
        (HasChild(c) /\ calls[c].req.name = "vagrant_snapshot") =>
            calls[c].child.argv[3] \in {"save", "restore", "list", "delete"}

ToolNames ==
    {"vagrant_status", "vagrant_up", "vagrant_halt", "vagrant_destroy",
     "vagrant_ssh", "vagrant_provision", "vagrant_reload", "vagrant_snapshot",
     "vagrant_global_status"}

\* the request names an operation and carries its required parameters
PassesValidation(req) == req.name \in ToolNames /\ ~MissingRequired(req)

\* the call ended with a synthetic failed result carrying `msg`, and no
\* child process was spawned
SyntheticFailure(call, msg) ==
    /\ call.pc = "done"
    /\ call.result # NoResult
    /\ call.result.return_code = -1
    /\ call.result.stdout = ""
    /\ call.result.stderr = msg
    /\ call.result.success = FALSE
    /\ call.response.t = "str"
    /\ call.spawns = 0
    /\ call.child = NoChild

\* C4: a validated call that finds the working directory missing, or (not
\* being global-status) finds no Vagrantfile in it, returns a synthetic
\* result with exit code -1, empty stdout and the matching message, and
\* spawns no child; global-status passes the marker check in any case.
C4_Preflight ==
    [][\A c \in CallIds :
        /\ (/\ calls[c].pc = "idle" /\ calls'[c].pc # "idle"
            /\ PassesValidation(calls'[c].req)
            /\ fs = "absent") =>
              SyntheticFailure(calls'[c],
                  "Directory does not exist: " \o base_projects_dir)
        /\ (/\ calls[c].pc = "check_marker" /\ calls'[c].pc # "check_marker"
            /\ calls[c].req.name # "vagrant_global_status"
            /\ fs # "project") =>
              SyntheticFailure(calls'[c],
                  "No Vagrantfile found in: " \o base_projects_dir)
        /\ (/\ calls[c].pc = "check_marker" /\ calls'[c].pc # "check_marker"
            /\ calls[c].req.name = "vagrant_global_status") =>
              (calls'[c].pc = "spawn" /\ calls'[c].result = NoResult)
      ]_vars

\* a call other than global-status has ended on the missing Vagrantfile
\* in an existing directory
C4_Witness ==
    \E c \in CallIds :
        /\ calls[c].pc = "done"
        /\ calls[c].outcome = "no_vagrantfile"
        /\ calls[c].req.name = "vagrant_halt"
        /\ calls[c].result.stderr = "No Vagrantfile found in: " \o base_projects_dir
        /\ fs = "dir"

\* the call is a destroy whose force is not requested
UnforcedDestroy(req) ==
    req.name = "vagrant_destroy" /\ ~IsTrue(ParamsOf(req), "force")

\* C5: a child gets an input pipe iff the operation is destroy without
\* force; the pipe then carries exactly the line "y\n"; every other child
\* has no input pipe and is given no input.
C5_ConfirmationInput ==
    \A c \in CallIds :
        HasChild(c) =>
            /\ (calls[c].child.stdin = "pipe") <=> UnforcedDestroy(calls[c].req)
            /\ UnforcedDestroy(calls[c].req) =>
                  calls[c].child.stdin_data = <<121, 10>>
            /\ ~UnforcedDestroy(calls[c].req) =>
                  /\ calls[c].child.stdin = "inherit"
                  /\ calls[c].child.stdin_data = <<>>

\* a destroy with force explicitly false runs with the confirmation line
C5_Witness ==
    \E c \in CallIds :
        /\ HasChild(c)
        /\ calls[c].req.name = "vagrant_destroy"
        /\ IsFalse(ParamsOf(calls[c].req), "force")
        /\ calls[c].child.stdin = "pipe"
        /\ calls[c].child.stdin_data = <<121, 10>>

\* the title line of each operation's report
TitleOf(req) ==
    CASE req.name = "vagrant_status" -> "Vagrant Status:\n"
      [] req.name = "vagrant_up" -> "Vagrant Up:\n"
      [] req.name = "vagrant_halt" -> "Vagrant Halt:\n"
      [] req.name = "vagrant_destroy" -> "Vagrant Destroy:\n"
      [] req.name = "vagrant_ssh" -> "Vagrant SSH Command:\n"
      [] req.name = "vagrant_provision" -> "Vagrant Provision:\n"
      [] req.name = "vagrant_reload" -> "Vagrant Reload:\n"
      [] req.name = "vagrant_snapshot" ->
            "Vagrant Snapshot " \o TitleCase(ParamsOf(req)["action"].s) \o ":\n"
      [] req.name = "vagrant_global_status" -> "Vagrant Global Status:\n"

\* the lines of a report above its body: title, command line, (for status,
\* the working directory,) exit code
ReportHeads(call) ==
    {TitleOf(call.req)
       \o "Command: " \o Join(<<"vagrant">> \o TableArgs(call.req)) \o "\n"
       \o (IF call.req.name = "vagrant_status"
           THEN "Working Directory: " \o w \o "\n" ELSE "")
       \o "Return Code: " \o IntToStr(call.result.return_code) \o "\n\n" :
     w \in {base_projects_dir, "unknown"}}

\* the reports whose body is `body` under the label `label`
ReportsWith(call, label, body) ==
    {PyStr(h \o label \o body) : h \in ReportHeads(call)}

\* C6: success is exit code 0 and nothing else; the response is one text
\* whose body is the whole captured standard output when the exit code is
\* 0 and the whole captured standard error otherwise.
C6_ReportBody ==
    \A c \in CallIds :
        (calls[c].pc = "done" /\ calls[c].result # NoResult) =>
            /\ calls[c].result.success <=> (calls[c].result.return_code = 0)
            /\ calls[c].outcome = "exited" =>
                  /\ calls[c].result.return_code = calls[c].child.returncode
                  /\ calls[c].result.stdout = Utf8Decode(calls[c].child.stdout)
                  /\ calls[c].result.stderr = Utf8Decode(calls[c].child.stderr)
            /\ calls[c].response \in
                  (IF calls[c].result.return_code = 0
                   THEN ReportsWith(calls[c], "Output:\n", calls[c].result.stdout)
                   ELSE ReportsWith(calls[c], "Error:\n", calls[c].result.stderr))

\* a child that wrote to both streams, with an undecodable byte in its
\* standard error, has failed with exit code 127
C6_Witness ==
    \E c \in CallIds :
        /\ calls[c].pc = "done"
        /\ calls[c].outcome = "exited"
        /\ calls[c].child.returncode = 127
        /\ calls[c].child.stdout = <<111, 107, 10>>
        /\ calls[c].child.stderr = <<255, 111>>
        /\ calls[c].result.stderr = "<U+FFFD>o"

\* the request without its directory parameter
WithoutDirectory(arguments) ==
    [arguments EXCEPT !.map =
        [k \in DOMAIN arguments.map \ {"directory"} |-> arguments.map[k]]]

\* C7: the configured working directory never changes, every pre-flight
\* check and child uses it, and the directory parameter changes neither the
\* argument list nor the working directory of a call.
C7_WorkingDirectoryFixed ==
    /\ [](\A c \in CallIds :
            /\ base_projects_dir \in {EnvGet(env) : env \in EnvValues}
            /\ calls[c].cmd # <<>> =>
                  /\ calls[c].cwd = base_projects_dir
                  /\ calls[c].cmd =
                        Cmd(Handler(calls[c].req.name,
                                    WithoutDirectory(calls[c].req.arguments)).cmd_args)
            /\ HasChild(c) => calls[c].child.cwd = base_projects_dir
            /\ calls[c].outcome = "no_directory" =>
                  calls[c].result.stderr =
                      "Directory does not exist: " \o base_projects_dir)
    /\ [][base_projects_dir' = base_projects_dir]_vars

\* a call that asked for another directory runs in the configured one
C7_Witness ==
    \E c \in CallIds :
        /\ HasChild(c)
        /\ HasText(ParamsOf(calls[c].req), "directory")
        /\ ParamsOf(calls[c].req)["directory"].s # base_projects_dir
        /\ calls[c].child.cwd = base_projects_dir

\* C8: a call spawns at most once: once when validation and pre-flight both
\* pass, never again after a spawn failure or a non-zero exit, and not at
\* all when validation or pre-flight rejects it.
C8_OneSpawnPerCall ==
    \A c \in CallIds :
        /\ calls[c].spawns <= 1
        /\ calls[c].pc \in {"idle", "check_marker", "spawn"} => calls[c].spawns = 0
        /\ calls[c].pc = "communicate" => calls[c].spawns = 1
        /\ calls[c].pc = "done" =>
              /\ calls[c].outcome \in {"spawn_error", "exited"} => calls[c].spawns = 1
              /\ calls[c].outcome \in {"caller_error", "no_directory", "no_vagrantfile"} =>
                    calls[c].spawns = 0
        /\ HasChild(c) => calls[c].spawns = 1

\* a call whose only spawn failed has ended
C8_Witness ==
    \E c \in CallIds :
        /\ calls[c].pc = "done"
        /\ calls[c].outcome = "spawn_error"
        /\ calls[c].spawns = 1
        /\ ~HasChild(c)

\* C9: every call ends with exactly one text response and no fault reaches
\* the transport, whatever the outcome; a caller error leaves no result, no
\* spawn and no child behind; a call that is not waiting for its child can
\* always take its next step.
C9_OneTextResponse ==
    \A c \in CallIds :
        /\ calls[c].faults = 0
        /\ calls[c].pc = "done" =>
              /\ calls[c].responses = 1
              /\ calls[c].response.t = "str"
              /\ calls[c].outcome \in
                    {"caller_error", "no_directory", "no_vagrantfile",
                     "spawn_error", "exited"}
        /\ calls[c].pc # "done" =>
              /\ calls[c].responses = 0
              /\ calls[c].response = PyNone
        /\ (calls[c].pc # "idle" /\ ~PassesValidation(calls[c].req)) =>
              /\ calls[c].pc = "done"
              /\ calls[c].outcome = "caller_error"
              /\ calls[c].spawns = 0
              /\ calls[c].child = NoChild
              /\ calls[c].result = NoResult
        /\ (calls[c].pc # "idle" /\ calls[c].req.name \notin ToolNames) =>
              calls[c].response = PyStr("Error: Unknown tool: " \o calls[c].req.name)
        /\ calls[c].pc = "check_marker" => ENABLED CheckMarker(c)
        /\ calls[c].pc = "spawn" => ENABLED Spawn(c)
        /\ (calls[c].pc = "communicate" /\ calls[c].child.state = "exited") =>
              ENABLED Communicate(c)

\* a call of an unknown operation has been answered
C9_Witness ==
    \E c \in CallIds :
        /\ calls[c].pc = "done"
        /\ calls[c].req.name = "vagrant_package"
        /\ calls[c].responses = 1
        /\ calls[c].response = PyStr("Error: Unknown tool: vagrant_package")

\* C10: a failed launch gives exit code -1, empty stdout and the launch
\* error's text as stderr and as the body of the response; a child that ran
\* gives its own exit code and stderr.
C10_SpawnFailureAndToolFailure ==
    [][\A c \in CallIds :
        /\ (calls[c].pc = "spawn" /\ calls'[c].pc = "done") =>
              \E tool \in ToolStates :
                  /\ SpawnError(calls[c].cwd, tool) # ""
                  /\ calls'[c].result.return_code = -1
                  /\ calls'[c].result.stdout = ""
                  /\ calls'[c].result.stderr = SpawnError(calls[c].cwd, tool)
                  /\ calls'[c].result.success = FALSE
                  /\ calls'[c].response \in
                        ReportsWith(calls'[c], "Error:\n",
                                    SpawnError(calls[c].cwd, tool))
        /\ (calls[c].pc = "communicate" /\ calls'[c].pc = "done") =>
              /\ calls'[c].result.return_code = calls[c].child.returncode
              /\ calls'[c].result.stderr = Utf8Decode(calls[c].child.stderr)
              /\ calls[c].child.returncode # 0 =>
                    calls'[c].response \in
                        ReportsWith(calls'[c], "Error:\n",
                                    Utf8Decode(calls[c].child.stderr))
      ]_vars

\* the tool was not found: the call has ended with -1 and the launch error
C10_Witness ==
    \E c \in CallIds :
        /\ calls[c].pc = "done"
        /\ calls[c].outcome = "spawn_error"
        /\ calls[c].result.return_code = -1
        /\ calls[c].result.stderr = "[Errno 2] No such file or directory: 'vagrant'"

\* the six fields of an Execution Result
ResultFields ==
    {"command", "return_code", "stdout", "stderr", "success", "working_directory"}

\* C11: every result of a dispatch, the synthetic ones included, carries
\* all six fields with the configured working directory, and the report of
\* the status operation names that directory, never "unknown".
C11_ResultCarriesWorkingDirectory ==
    \A c \in CallIds :
        calls[c].result # NoResult =>
            /\ DOMAIN calls[c].result = ResultFields
            /\ calls[c].result.working_directory = base_projects_dir
            /\ calls[c].req.name = "vagrant_status" =>
                  calls[c].response =
                      PyStr("Vagrant Status:\n"
                            \o "Command: vagrant status\n"
                            \o "Working Directory: " \o base_projects_dir \o "\n"
                            \o "Return Code: "
                            \o IntToStr(calls[c].result.return_code) \o "\n\n"
                            \o (IF calls[c].result.return_code = 0
                                THEN "Output:\n" \o calls[c].result.stdout
                                ELSE "Error:\n" \o calls[c].result.stderr))

\* what call c was built from its own request alone
OwnInputs(c) ==
    /\ calls[c].cmd # <<>> =>
          /\ calls[c].cmd = <<"vagrant">> \o TableArgs(calls[c].req)
          /\ calls[c].cwd = base_projects_dir
    /\ HasChild(c) =>
          /\ calls[c].child.argv = <<"vagrant">> \o TableArgs(calls[c].req)
          /\ calls[c].child.cwd = base_projects_dir
          /\ calls[c].child.stdin_data =
                (IF UnforcedDestroy(calls[c].req) THEN <<121, 10>> ELSE <<>>)

\* the response of call c reports the exit code and streams of its own child
OwnOutputs(c) ==
    (calls[c].pc = "done" /\ calls[c].outcome = "exited") =>
        /\ calls[c].child.state = "exited"
        /\ calls[c].result.return_code = calls[c].child.returncode
        /\ calls[c].result.stdout = Utf8Decode(calls[c].child.stdout)
        /\ calls[c].result.stderr = Utf8Decode(calls[c].child.stderr)
        /\ calls[c].response \in
              (IF calls[c].child.returncode = 0
               THEN ReportsWith(calls[c], "Output:\n",
                                Utf8Decode(calls[c].child.stdout))
               ELSE ReportsWith(calls[c], "Error:\n",
                                Utf8Decode(calls[c].child.stderr)))

\* C12: under any interleaving, the argument list, working directory, input
\* and child of a call come from its own request, its response reports its
\* own child, a step of one call leaves every other call as it was, and the
\* working-directory configuration is never written.
C12_CallsIndependent ==
    /\ [](\A c \in CallIds : OwnInputs(c) /\ OwnOutputs(c))
    /\ [][/\ base_projects_dir' = base_projects_dir
          /\ \A c, d \in CallIds :
                (c # d /\ calls'[c] # calls[c]) => calls'[d] = calls[d]
        ]_vars

\* two calls in flight at once whose children ended differently: the later
\* call has reported its own child's failure while the earlier one, whose
\* child succeeded, has not yet returned
C12_Witness ==
    \E c, d \in CallIds :
        /\ d < c
        /\ calls[d].pc = "communicate"
        /\ calls[d].child.state = "exited"
        /\ calls[d].child.returncode = 0
        /\ calls[c].pc = "done"
        /\ calls[c].outcome = "exited"
        /\ calls[c].child.argv # calls[d].child.argv
        /\ calls[c].result.return_code = 1
        /\ calls[c].result.stderr = "x\n"

\* call c is waiting for a child that still runs
Waiting(c) == calls[c].pc = "communicate" /\ calls[c].child.state = "running"

\* call c has a step of its own to take: a pre-flight check, the spawn, or
\* the collection of its exited child
Ready(c) ==
    \/ calls[c].pc \in {"check_marker", "spawn"}
    \/ calls[c].pc = "communicate" /\ calls[c].child.state = "exited"

\* C13: a call with a child returns only after the child has exited, with
\* one response carrying the child's exit code; while the child runs nothing
\* ends the wait; a call whose child has exited returns, and a call in
\* pre-flight or spawn reaches its response or the wait for its child.
C13_WaitsForChild ==
    /\ [](\A c \in CallIds :
            /\ (calls[c].pc = "done" /\ HasChild(c)) =>
                  /\ calls[c].child.state = "exited"
                  /\ calls[c].responses = 1
                  /\ calls[c].result.return_code = calls[c].child.returncode
            /\ calls[c].pc # "done" => calls[c].responses = 0)
    /\ [][\A c \in CallIds :
            /\ Waiting(c) =>
                  (calls'[c].pc = "communicate" /\ calls'[c].responses = 0)
            /\ (calls[c].pc = "communicate" /\ calls'[c].pc # "communicate") =>
                  /\ calls[c].child.state = "exited"
                  /\ calls'[c].pc = "done"
                  /\ calls'[c].responses = 1
                  /\ calls'[c].result.return_code = calls[c].child.returncode
        ]_vars
    /\ \A c \in CallIds : Ready(c) ~> (calls[c].pc = "done" \/ Waiting(c))

\* one call has returned its exited child's code while another is still
\* waiting for a child that runs
C13_Witness ==
    \E c, d \in CallIds :
        /\ c # d
        /\ calls[c].pc = "done"
        /\ calls[c].outcome = "exited"
        /\ calls[c].child.state = "exited"
        /\ calls[c].result.return_code = calls[c].child.returncode
        /\ calls[d].pc = "communicate"
        /\ calls[d].child.state = "running"

====
